---------------------------- MODULE Spec2Model ----------------------------
(***************************************************************************)
(* Model of the Dagster COVID pipeline of ProyectoFinal/defs/assets.py:    *)
(* five assets (leer_datos, datos_procesados, metrica_incidencia_7d,       *)
(* metrica_factor_crec_7d, reporte_excel_covid) and two asset checks       *)
(* (chequeos_entrada, chequeos_salida_incidencia), registered in           *)
(* defs/__init__.py.                                                       *)
(*                                                                         *)
(* Data representation.  A float cell is a pair <<n, d>> with d >= 0 in    *)
(* lowest terms: d > 0 is the finite number n/d, <<1,0>> is +inf,          *)
(* <<-1,0>> is -inf and <<0,0>> is NaN (a missing cell).  Arithmetic is    *)
(* exact: IEEE rounding of the float64 operations is not modelled.  A      *)
(* date cell is {} (NaT) or {d} for day number d.  A data frame is a       *)
(* record [cols, rows]: the set of column names and the sequence of rows   *)
(* in index order.                                                         *)
(***************************************************************************)
EXTENDS Integers, Sequences, FiniteSets, TLC

(***************************************************************************)
(* Extended rational arithmetic (float cells)                              *)
(***************************************************************************)
RECURSIVE Gcd(_, _)
Gcd(a, b) == IF b = 0 THEN a ELSE Gcd(b, a % b)

Abs(x) == IF x < 0 THEN -x ELSE x

Sign(x) == IF x > 0 THEN 1 ELSE IF x < 0 THEN -1 ELSE 0

NaN == <<0, 0>>

\* n/d in lowest terms with a positive denominator; d = 0 gives inf, -inf or NaN.
Frac(n, d) ==
    IF d = 0 THEN <<Sign(n), 0>>
    ELSE LET g == Gcd(Abs(n), Abs(d))
         IN  <<Sign(d) * (n \div g), Abs(d) \div g>>

Num(n) == <<n, 1>>

IsNaN(x) == x = NaN

IsFinite(x) == x[2] > 0

\* x + y for finite x and y; NaN if either is missing.
RAdd(x, y) ==
    IF IsFinite(x) /\ IsFinite(y)
    THEN Frac(x[1] * y[2] + y[1] * x[2], x[2] * y[2])
    ELSE NaN

\* x / y as float64 division does it: a finite nonzero x over 0 is +-inf,
\* 0 / 0 is NaN, and NaN propagates.
RDiv(x, y) ==
    IF IsFinite(x) /\ IsFinite(y)
    THEN Frac(x[1] * y[2], x[2] * y[1])
    ELSE NaN

\* x * k for an integer k > 0 (inf stays inf, NaN stays NaN).
RScale(x, k) == IF IsFinite(x) THEN Frac(x[1] * k, x[2]) ELSE x

\* x >= k and x <= k as float comparisons: every comparison with NaN is false.
RGeq(x, k) == IF x[2] = 0 THEN x[1] = 1 ELSE x[1] >= k * x[2]

RLeq(x, k) == IF x[2] = 0 THEN x[1] = -1 ELSE x[1] <= k * x[2]

RGt(x, k) == IF x[2] = 0 THEN x[1] = 1 ELSE x[1] > k * x[2]

RLt(x, k) == IF x[2] = 0 THEN x[1] = -1 ELSE x[1] < k * x[2]

(***************************************************************************)
(* Generic sequence helpers                                                *)
(***************************************************************************)
Range(s) == {s[i] : i \in 1..Len(s)}

\* The subsequence of s at the indices satisfying keep, in index order.
RECURSIVE Pick(_, _, _)
Pick(s, keep, i) ==
    IF i > Len(s) THEN <<>>
    ELSE IF i \in keep THEN <<s[i]>> \o Pick(s, keep, i + 1)
    ELSE Pick(s, keep, i + 1)

RECURSIVE Concat(_)
Concat(ss) == IF ss = <<>> THEN <<>> ELSE Head(ss) \o Concat(Tail(ss))

(***************************************************************************)
(* Program constants                                                       *)
(***************************************************************************)
PERU_ECUADOR == {"Peru", "Ecuador"}

\* usecols of read_csv: the five columns every loaded frame has.
USECOLS == {"location", "date", "new_cases", "people_vaccinated", "population"}

\* rolling(7), shift(7)
Ventana == 7

\* (new_cases / population) * 100000
Por100k == 100000

\* today + pd.Timedelta(days=30)
DiasFuturo == 30

\* incidencia_7d <= 2000
MaxIncidencia == 2000

\* factor_crec_7d <= 10
MaxFactor == 10


(***************************************************************************)
(* leer_datos: download and parse                                          *)
(***************************************************************************)
\* str.strip().str.title() on the location texts the model's datasets use:
\* surrounding blanks removed, first letter of each word upper case, the
\* rest lower case.
StripTitle(s) ==
    CASE s = " peru"    -> "Peru"
      [] s = "PERU"     -> "Peru"
      [] s = "Peru"     -> "Peru"
      [] s = "ECUADOR " -> "Ecuador"
      [] s = "ecuador"  -> "Ecuador"
      [] s = "Ecuador"  -> "Ecuador"
      [] s = "chile"    -> "Chile"
      [] s = "Chile"    -> "Chile"
      [] OTHER          -> s

\* pd.to_datetime(errors="coerce"): an unparseable text becomes NaT.
ToDatetime(raw) == IF raw.txt = "iso" THEN {raw.dia} ELSE {}

\* The frame leer_datos returns for the downloaded rows.
leer_datos(filas) ==
    [cols |-> USECOLS,
     rows |-> [i \in 1..Len(filas) |->
                 [filas[i] EXCEPT !.date = ToDatetime(filas[i].date),
                                  !.location = StripTitle(filas[i].location)]]]

(***************************************************************************)
(* chequeos_entrada                                                        *)
(***************************************************************************)
Key(r) == <<r.location, r.date>>

\* DataFrame.duplicated(subset=["location","date"]) with keep="first": the
\* indices whose key already occurred at a smaller index.
Duplicated(rows) ==
    {i \in 1..Len(rows) : \E j \in 1..(i - 1) : Key(rows[j]) = Key(rows[i])}

\* Series.max() of the date column: NaT is skipped; NaT when nothing is left.
MaxDate(rows) ==
    LET ds == UNION {rows[i].date : i \in 1..Len(rows)}
    IN  IF ds = {} THEN {} ELSE {CHOOSE d \in ds : \A e \in ds : e <= d}

Regla(nombre, ok, afectadas) ==
    [nombre_regla |-> nombre,
     estado |-> IF ok THEN "Si" ELSE "No",
     filas_afectadas |-> afectadas,
     notas |-> IF ok THEN "OK" ELSE "Continuar con advertencia"]

\* Variant: a row of each jurisdiction is required.
PaisesOkCadaUno(df) ==
    /\ "location" \in df.cols
    /\ \A p \in PERU_ECUADOR :
          \E i \in 1..Len(df.rows) : StripTitle(df.rows[i].location) = p

\* "datos de Peru o Ecuador presentes": locations.isin(PERU_ECUADOR).any()
PaisesOk(df) ==
    /\ "location" \in df.cols
    /\ \E i \in 1..Len(df.rows) : StripTitle(df.rows[i].location) \in PERU_ECUADOR

\* "fecha maxima razonable": max_date <= today + 30 days (false for NaT).
FechaOk(df, hoy) ==
    /\ "date" \in df.cols
    /\ LET m == MaxDate(df.rows)
       IN  m # {} /\ \A d \in m : d <= hoy + DiasFuturo

\* duplicated = ....sum() when both key columns exist, else 0
NumDuplicados(df) ==
    IF "location" \in df.cols /\ "date" \in df.cols
    THEN Cardinality(Duplicated(df.rows))
    ELSE 0

\* (population > 0).all() when the column exists, else False
PopOk(df) ==
    /\ "population" \in df.cols
    /\ \A i \in 1..Len(df.rows) : RGt(df.rows[i].population, 0)

\* negativos = (new_cases < 0).sum() when the column exists, else 0
NumNegativos(df) ==
    IF "new_cases" \in df.cols
    THEN Cardinality({i \in 1..Len(df.rows) : RLt(df.rows[i].new_cases, 0)})
    ELSE 0

\* The nine rules in the order they are appended, as the rows of "resumen"
\* (metadata[rule] is the row's estado).  Accents of the source texts are
\* written without the accent.
ReglasEntrada(df, hoy) ==
    << Regla("location presente", "location" \in df.cols, "0"),
       Regla("date presente", "date" \in df.cols, "0"),
       Regla("new_cases presente", "new_cases" \in df.cols, "0"),
       Regla("population presente", "population" \in df.cols, "0"),
       Regla("datos de Peru o Ecuador presentes", PaisesOk(df), "0"),
       Regla("fecha maxima razonable", FechaOk(df, hoy), "0"),
       Regla("unicidad (location, date)", NumDuplicados(df) = 0,
             ToString(NumDuplicados(df))),
       Regla("population > 0", PopOk(df), "0"),
       Regla("new_cases >= 0", NumNegativos(df) = 0,
             ToString(NumNegativos(df))) >>

\* AssetCheckResult(passed=all rules passed, metadata)
chequeos_entrada(df, hoy) ==
    LET rs == ReglasEntrada(df, hoy)
    IN  [ran |-> TRUE,
         passed |-> \A i \in 1..Len(rs) : rs[i].estado = "Si",
         resumen |-> rs]

(***************************************************************************)
(* datos_procesados                                                        *)
(***************************************************************************)
\* df[df["location"].isin(PERU_ECUADOR)]
FiltrarPaises(rows) ==
    Pick(rows, {i \in 1..Len(rows) : rows[i].location \in PERU_ECUADOR}, 1)

\* dropna(subset=["new_cases", "people_vaccinated"])
DropNa(rows) ==
    Pick(rows, {i \in 1..Len(rows) : /\ ~IsNaN(rows[i].new_cases)
                                     /\ ~IsNaN(rows[i].people_vaccinated)}, 1)

\* Variant: repeated keys are not removed.
SinDropDuplicates(rows) == rows

\* drop_duplicates(subset=["location","date"], keep="last"): a row stays
\* unless its key occurs again at a larger index.
DropDuplicatesLast(rows) ==
    Pick(rows, {i \in 1..Len(rows) :
                  ~\E j \in (i + 1)..Len(rows) : Key(rows[j]) = Key(rows[i])}, 1)

\* Variant: keep="first".
datos_procesados_keep_first(df) ==
    LET filtrado == DropNa(FiltrarPaises(df.rows))
    IN  Pick(filtrado, {i \in 1..Len(filtrado) : i \notin Duplicated(filtrado)}, 1)

\* Indexing a missing column raises KeyError.
datos_procesados_raises(df) == ~(USECOLS \subseteq df.cols)

datos_procesados(df) ==
    LET filtrado == DropNa(FiltrarPaises(df.rows))
    IN  IF Duplicated(filtrado) # {}
        THEN DropDuplicatesLast(filtrado)
        ELSE filtrado

(***************************************************************************)
(* Rolling metrics: shared helpers                                         *)
(***************************************************************************)
\* Alphabetical rank of the location values (sort_values and groupby order
\* keys ascending).
LocRank(l) == CASE l = "Chile" -> 0 [] l = "Ecuador" -> 1 [] l = "Peru" -> 2 [] OTHER -> 3

OrdenLoc == <<"Chile", "Ecuador", "Peru">>

\* Ascending dates with NaT last (na_position="last").
DateLt(a, b) == a # {} /\ (b = {} \/ \E x \in a : \E y \in b : x < y)

RowLt(a, b) ==
    \/ LocRank(a.location) < LocRank(b.location)
    \/ LocRank(a.location) = LocRank(b.location) /\ DateLt(a.date, b.date)

\* Variant: the frame is left in its upstream order.
SinOrdenar(rows) == rows

\* sort_values(["location", "date"]): stable, so a row goes after the rows
\* already placed that are not greater than it.
RECURSIVE SortValues(_)
SortValues(rows) ==
    IF rows = <<>> THEN <<>>
    ELSE LET n == Len(rows)
             r == rows[n]
             t == SortValues(SubSeq(rows, 1, n - 1))
             k == Cardinality({i \in 1..(n - 1) : ~RowLt(r, t[i])})
         IN  SubSeq(t, 1, k) \o <<r>> \o SubSeq(t, k + 1, n - 1)

\* groupby("location"): the keys present, ascending, and each key's rows in
\* frame order.
Claves(rows) ==
    Pick(OrdenLoc, {k \in 1..Len(OrdenLoc) :
                      \E i \in 1..Len(rows) : rows[i].location = OrdenLoc[k]}, 1)

Grupo(rows, loc) == Pick(rows, {i \in 1..Len(rows) : rows[i].location = loc}, 1)

RECURSIVE SumRange(_, _, _)
SumRange(xs, lo, hi) ==
    IF lo > hi THEN Num(0) ELSE RAdd(xs[lo], SumRange(xs, lo + 1, hi))

\* rolling(7).sum(): defined where the window holds 7 values, none of them
\* missing (min_periods = window; the rolling code turns inf into NaN first).
RollingSum(xs) ==
    [i \in 1..Len(xs) |->
       IF i >= Ventana /\ \A j \in (i - Ventana + 1)..i : IsFinite(xs[j])
       THEN SumRange(xs, i - Ventana + 1, i)
       ELSE NaN]

\* rolling(7).mean()
RollingMean(xs) ==
    LET s == RollingSum(xs)
    IN  [i \in 1..Len(xs) |-> RDiv(s[i], Num(Ventana))]

\* shift(7)
Shift(xs) ==
    [i \in 1..Len(xs) |-> IF i <= Ventana THEN NaN ELSE xs[i - Ventana]]

(***************************************************************************)
(* metrica_incidencia_7d                                                   *)
(***************************************************************************)
\* (new_cases / population) * 100000
IncidenciaDiaria(r) == RScale(RDiv(r.new_cases, r.population), Por100k)

IncidenciaGrupo(g) ==
    LET m == RollingMean([i \in 1..Len(g) |-> IncidenciaDiaria(g[i])])
    IN  [i \in 1..Len(g) |->
           [date |-> g[i].date, location |-> g[i].location, incidencia_7d |-> m[i]]]

\* df[["date", "location", "incidencia_7d"]].dropna()
DropNaIncidencia(rows) ==
    Pick(rows, {i \in 1..Len(rows) : /\ rows[i].date # {}
                                     /\ ~IsNaN(rows[i].incidencia_7d)}, 1)

metrica_incidencia_7d(rows) ==
    LET df == SortValues(rows)
        ks == Claves(df)
    IN  DropNaIncidencia(
          Concat([k \in 1..Len(ks) |-> IncidenciaGrupo(Grupo(df, ks[k]))]))

(***************************************************************************)
(* metrica_factor_crec_7d                                                  *)
(***************************************************************************)
\* factor.replace([inf, -inf], None).fillna(0): with pandas 2 the explicit
\* None is the replacement value, so an infinite ratio becomes missing and
\* every missing ratio becomes 0.
ReplaceFillna(f) == IF IsFinite(f) THEN f ELSE Num(0)

FactorGrupo(g) ==
    LET cases  == [i \in 1..Len(g) |-> g[i].new_cases]
        actual == RollingSum(cases)
        previa == RollingSum(Shift(cases))
    IN  [i \in 1..Len(g) |->
           [date |-> g[i].date, location |-> g[i].location,
            casos_semana |-> actual[i],
            factor_crec_7d |-> ReplaceFillna(RDiv(actual[i], previa[i]))]]

\* Variant: the upper limit of the range filter is missing.
FiltroFactorSinTope(rows) ==
    Pick(rows, {i \in 1..Len(rows) : /\ ~IsNaN(rows[i].factor_crec_7d)
                                     /\ RGeq(rows[i].factor_crec_7d, 0)}, 1)

\* result[(factor >= 0) & (factor <= 10)] after dropna(subset=[factor])
FiltroFactor(rows) ==
    Pick(rows, {i \in 1..Len(rows) : /\ ~IsNaN(rows[i].factor_crec_7d)
                                     /\ RGeq(rows[i].factor_crec_7d, 0)
                                     /\ RLeq(rows[i].factor_crec_7d, MaxFactor)}, 1)

\* pd.concat(res) raises ValueError when no group was appended.
metrica_factor_crec_7d_raises(rows) == Claves(rows) = <<>>

metrica_factor_crec_7d(rows) ==
    LET df == SortValues(rows)
        ks == Claves(df)
    IN  FiltroFactor(Concat([k \in 1..Len(ks) |-> FactorGrupo(Grupo(df, ks[k]))]))

(***************************************************************************)
(* chequeos_salida_incidencia                                              *)
(***************************************************************************)
RangoValido(r) == RGeq(r.incidencia_7d, 0) /\ RLeq(r.incidencia_7d, MaxIncidencia)

\* Variant: no early return for the empty frame.
chequeos_salida_sin_vacio(rows) ==
    LET fuera == {i \in 1..Len(rows) : ~RangoValido(rows[i])}
    IN  [ran |-> TRUE, passed |-> fuera = {},
         metadata |-> ("rango_valido" :> (IF fuera = {} THEN "Si" ELSE "No"))
                   @@ ("total_filas" :> ToString(Len(rows)))
                   @@ ("fuera_de_rango" :> ToString(Cardinality(fuera)))]

chequeos_salida_incidencia(rows) ==
    IF rows = <<>>
    THEN [ran |-> TRUE, passed |-> FALSE,
          metadata |-> ("error" :> "DataFrame vacio")]
    ELSE LET fuera == {i \in 1..Len(rows) : ~RangoValido(rows[i])}
         IN  [ran |-> TRUE, passed |-> fuera = {},
              metadata |-> ("rango_valido" :> (IF fuera = {} THEN "Si" ELSE "No"))
                        @@ ("total_filas" :> ToString(Len(rows)))
                        @@ ("fuera_de_rango" :> ToString(Cardinality(fuera)))]

(***************************************************************************)
(* Bounds of the model and the datasets it runs on                         *)
(***************************************************************************)
\* Rows of a short dataset.
MaxFilas == 3

\* Rows of a frame handed directly to the checks.
MaxFilasDirecto == 2

\* Days of the long Peru series and of the Ecuador series.
MaxDias == 15

MaxEcu == 8

\* Day of the long series whose population may be unusable.
DiaMalo == 9

\* datetime.today() as a day number, and a date beyond today + 30 days.
Hoy == 5

FechaLejana == 40

Poblacion == Num(1000000)

Iso(d) == [txt |-> "iso", dia |-> d]

Ilegible == [txt |-> "bad", dia |-> 0]

Fila(loc, fecha, casos, vac, pob) ==
    [location |-> loc, date |-> fecha, new_cases |-> casos,
     people_vaccinated |-> vac, population |-> pob]

\* Rows of the short datasets: both jurisdictions and a third country, with
\* texts that need strip/title, repeated keys with different contents,
\* negative counts, and rows with a missing date, count, vaccination or
\* population and a far future date.
FilasCortas ==
    {Fila(" peru", Iso(d), Num(c), Num(1), Poblacion) : d \in {1, 2}, c \in {-1, 2}}
    \cup {Fila("ECUADOR ", Iso(1), Num(c), Num(1), Poblacion) : c \in {-1, 2}}
    \cup { Fila("chile", Iso(1), Num(2), Num(1), Poblacion),
           Fila(" peru", Ilegible, Num(2), Num(1), Poblacion),
           Fila(" peru", Iso(1), NaN, Num(1), Poblacion),
           Fila("ECUADOR ", Iso(1), Num(2), NaN, Poblacion),
           Fila(" peru", Iso(2), Num(2), Num(1), Num(0)),
           Fila("ECUADOR ", Iso(FechaLejana), Num(2), Num(1), Poblacion) }

SeqsHasta(S, n) == UNION {[1..k -> S] : k \in 0..n}

DatasetsCortos == SeqsHasta(FilasCortas, MaxFilas)

\* A long dataset: an optional Peru row with an unreadable date, then Peru's
\* days n..1 in descending order (a cases a day in the first week, b after
\* it, the population of day DiaMalo possibly missing or zero), then
\* Ecuador's days 1..m with 100 cases a day.
PobLarga(d, malo) ==
    IF d = DiaMalo /\ malo = "nulo" THEN NaN
    ELSE IF d = DiaMalo /\ malo = "cero" THEN Num(0)
    ELSE Poblacion

DatasetLargo(n, a, b, malo, nat, m) ==
    (IF nat THEN <<Fila(" peru", Ilegible, Num(b), Num(1), Poblacion)>> ELSE <<>>)
    \o [i \in 1..n |->
          LET d == n + 1 - i
          IN  Fila(" peru", Iso(d), Num(IF d <= Ventana THEN a ELSE b), Num(1),
                   PobLarga(d, malo))]
    \o [d \in 1..m |-> Fila("ECUADOR ", Iso(d), Num(100), Num(1), Poblacion)]

\* The unusable population is combined with one pair of levels only, and the
\* Ecuador series is absent or at least 6 days long.
ParamsLargos ==
    {p \in [n : 0..MaxDias, a : {-1, 0, 2}, b : {0, 2, 25},
            malo : {"no", "nulo", "cero"}, nat : BOOLEAN,
            m : {0} \cup 6..MaxEcu] :
       p.malo = "no" \/ (p.a = 2 /\ p.b = 25)}

DatasetsLargos ==
    {DatasetLargo(p.n, p.a, p.b, p.malo, p.nat, p.m) : p \in ParamsLargos}

\* Frames handed directly to the checks: any subset of the columns.
FilasDirectas ==
    { Fila("Peru", {1}, Num(2), Num(1), Poblacion),
      Fila("Peru", {1}, Num(-1), Num(1), Poblacion),
      Fila("Ecuador", {2}, Num(2), Num(1), Num(0)),
      Fila("Chile", {FechaLejana}, Num(2), Num(1), Poblacion) }

FramesDirectos ==
    [cols : SUBSET USECOLS, rows : SeqsHasta(FilasDirectas, MaxFilasDirecto)]

(***************************************************************************)
(* The run: Dagster's execution of the definitions                         *)
(***************************************************************************)
VARIABLES
    csv,            \* the rows the source URL serves
    estado,         \* each asset's state in the run
    df_leer,        \* output of leer_datos
    df_procesados,  \* output of datos_procesados (rows)
    df_incidencia,  \* output of metrica_incidencia_7d (rows)
    df_factor,      \* output of metrica_factor_crec_7d (rows)
    chk_entrada,    \* result of chequeos_entrada
    chk_salida,     \* result of chequeos_salida_incidencia
    reporte         \* reporte_excel_covid: whether its body ran, and its result

vars == <<csv, estado, df_leer, df_procesados, df_incidencia, df_factor,
          chk_entrada, chk_salida, reporte>>

Assets == {"leer_datos", "datos_procesados", "metrica_incidencia_7d",
           "metrica_factor_crec_7d", "reporte_excel_covid"}

\* Upstream assets: the parameters of each asset function.
Deps(n) ==
    CASE n = "leer_datos" -> {}
      [] n = "datos_procesados" -> {"leer_datos"}
      [] n = "metrica_incidencia_7d" -> {"datos_procesados"}
      [] n = "metrica_factor_crec_7d" -> {"datos_procesados"}
      [] n = "reporte_excel_covid" -> {"metrica_incidencia_7d", "metrica_factor_crec_7d"}

\* Variant: the output check is declared with blocking=True.
SalidaBlockingTrue == TRUE

\* @dg.asset_check(asset=...) without blocking=True: neither check blocks.
EntradaBlocking == FALSE

SalidaBlocking == FALSE

\* A blocking check of asset n has not passed (yet).
CheckPendiente(n) ==
    \/ n = "leer_datos" /\ EntradaBlocking /\ ~(chk_entrada.ran /\ chk_entrada.passed)
    \/ n = "metrica_incidencia_7d" /\ SalidaBlocking
         /\ ~(chk_salida.ran /\ chk_salida.passed)

\* A blocking check of asset n ran and failed.
CheckFallido(n) ==
    \/ n = "leer_datos" /\ EntradaBlocking /\ chk_entrada.ran /\ ~chk_entrada.passed
    \/ n = "metrica_incidencia_7d" /\ SalidaBlocking
         /\ chk_salida.ran /\ ~chk_salida.passed

\* Asset n may execute: every upstream asset materialized and none of their
\* blocking checks is pending or failed.
Listo(n) ==
    /\ estado[n] = "Pending"
    /\ \A u \in Deps(n) : estado[u] = "Materialized" /\ ~CheckPendiente(u)

\* Asset n cannot execute any more: an upstream asset failed or was skipped,
\* or a blocking check of an upstream asset failed.
Cortado(n) ==
    /\ estado[n] = "Pending"
    /\ \E u \in Deps(n) : estado[u] \in {"Failed", "Skipped"} \/ CheckFallido(u)

NoChk == [ran |-> FALSE, passed |-> FALSE]

OUTPUT_PATH == "/workspaces/Proyecto-dagster-covid/reporte_covid.xlsx"

InitRun ==
    /\ estado = [n \in Assets |-> "Pending"]
    /\ df_leer = [cols |-> {}, rows |-> <<>>]
    /\ df_procesados = <<>>
    /\ df_incidencia = <<>>
    /\ df_factor = <<>>
    /\ chk_entrada = NoChk
    /\ chk_salida = NoChk
    /\ reporte = [ran |-> FALSE, path |-> ""]

\* A run on a short dataset.
Init == csv \in DatasetsCortos /\ InitRun

\* A run on a long dataset.
InitLargo == csv \in DatasetsLargos /\ InitRun

\* The checks and the assets applied to a frame given directly as the output
\* of leer_datos.
InitDirecto ==
    /\ csv = <<>>
    /\ estado = [n \in Assets |-> IF n = "leer_datos" THEN "Materialized" ELSE "Pending"]
    /\ df_leer \in FramesDirectos
    /\ df_procesados = <<>>
    /\ df_incidencia = <<>>
    /\ df_factor = <<>>
    /\ chk_entrada = NoChk
    /\ chk_salida = NoChk
    /\ reporte = [ran |-> FALSE, path |-> ""]

\* leer_datos: the download succeeds and the rows are parsed, or requests
\* raises and the asset fails.
RunLeerDatos ==
    /\ Listo("leer_datos")
    /\ \/ /\ df_leer' = leer_datos(csv)
          /\ estado' = [estado EXCEPT !["leer_datos"] = "Materialized"]
       \/ /\ df_leer' = df_leer
          /\ estado' = [estado EXCEPT !["leer_datos"] = "Failed"]
    /\ UNCHANGED <<csv, df_procesados, df_incidencia, df_factor,
                   chk_entrada, chk_salida, reporte>>

\* chequeos_entrada runs once leer_datos materialized.
RunChequeosEntrada ==
    /\ estado["leer_datos"] = "Materialized"
    /\ ~chk_entrada.ran
    /\ chk_entrada' = chequeos_entrada(df_leer, Hoy)
    /\ UNCHANGED <<csv, estado, df_leer, df_procesados, df_incidencia, df_factor,
                   chk_salida, reporte>>

RunDatosProcesados ==
    /\ Listo("datos_procesados")
    /\ IF datos_procesados_raises(df_leer)
       THEN /\ estado' = [estado EXCEPT !["datos_procesados"] = "Failed"]
            /\ df_procesados' = df_procesados
       ELSE /\ estado' = [estado EXCEPT !["datos_procesados"] = "Materialized"]
            /\ df_procesados' = datos_procesados(df_leer)
    /\ UNCHANGED <<csv, df_leer, df_incidencia, df_factor,
                   chk_entrada, chk_salida, reporte>>

RunMetricaIncidencia ==
    /\ Listo("metrica_incidencia_7d")
    /\ estado' = [estado EXCEPT !["metrica_incidencia_7d"] = "Materialized"]
    /\ df_incidencia' = metrica_incidencia_7d(df_procesados)
    /\ UNCHANGED <<csv, df_leer, df_procesados, df_factor,
                   chk_entrada, chk_salida, reporte>>

RunMetricaFactor ==
    /\ Listo("metrica_factor_crec_7d")
    /\ IF metrica_factor_crec_7d_raises(df_procesados)
       THEN /\ estado' = [estado EXCEPT !["metrica_factor_crec_7d"] = "Failed"]
            /\ df_factor' = df_factor
       ELSE /\ estado' = [estado EXCEPT !["metrica_factor_crec_7d"] = "Materialized"]
            /\ df_factor' = metrica_factor_crec_7d(df_procesados)
    /\ UNCHANGED <<csv, df_leer, df_procesados, df_incidencia,
                   chk_entrada, chk_salida, reporte>>

\* chequeos_salida_incidencia runs once metrica_incidencia_7d materialized.
RunChequeosSalida ==
    /\ estado["metrica_incidencia_7d"] = "Materialized"
    /\ ~chk_salida.ran
    /\ chk_salida' = chequeos_salida_incidencia(df_incidencia)
    /\ UNCHANGED <<csv, estado, df_leer, df_procesados, df_incidencia, df_factor,
                   chk_entrada, reporte>>

\* reporte_excel_covid: the body runs; it returns the path, or the workbook
\* cannot be written and it raises RuntimeError.  The workbook's contents are
\* not part of the state.
RunReporte ==
    /\ Listo("reporte_excel_covid")
    /\ \/ /\ reporte' = [ran |-> TRUE, path |-> OUTPUT_PATH]
          /\ estado' = [estado EXCEPT !["reporte_excel_covid"] = "Materialized"]
       \/ /\ reporte' = [ran |-> TRUE, path |-> ""]
          /\ estado' = [estado EXCEPT !["reporte_excel_covid"] = "Failed"]
    /\ UNCHANGED <<csv, df_leer, df_procesados, df_incidencia, df_factor,
                   chk_entrada, chk_salida>>

\* An asset whose upstream failed (or whose upstream's blocking check
\* failed) is skipped without running its body.
Omitir ==
    /\ \E n \in Assets :
          /\ Cortado(n)
          /\ estado' = [estado EXCEPT ![n] = "Skipped"]
    /\ UNCHANGED <<csv, df_leer, df_procesados, df_incidencia, df_factor,
                   chk_entrada, chk_salida, reporte>>

NextDirecto ==
    \/ RunChequeosEntrada
    \/ RunDatosProcesados
    \/ RunMetricaIncidencia
    \/ RunMetricaFactor
    \/ RunChequeosSalida
    \/ RunReporte
    \/ Omitir

Next == RunLeerDatos \/ NextDirecto

Spec == Init /\ [][Next]_vars

SpecLargo == InitLargo /\ [][Next]_vars

SpecDirecto == InitDirecto /\ [][NextDirecto]_vars

(***************************************************************************)
(* Properties                                                              *)
(***************************************************************************)
Mat(n) == estado[n] = "Materialized"

\* The rows of leer_datos that pass the jurisdiction and null filters.
Sobrevive(r) ==
    /\ r.location = "Peru" \/ r.location = "Ecuador"
    /\ r.new_cases # <<0, 0>>
    /\ r.people_vaccinated # <<0, 0>>

Sobrevivientes == SelectSeq(df_leer.rows, Sobrevive)

Clave(r) == <<r.location, r.date>>

\* C1: the output of datos_procesados has no two rows with the same
\* (location, date) and every row's location is Peru or Ecuador.
C1_ClavesUnicas ==
    Mat("datos_procesados") =>
        /\ \A i, j \in 1..Len(df_procesados) :
              i # j => Clave(df_procesados[i]) # Clave(df_procesados[j])
        /\ \A i \in 1..Len(df_procesados) :
              df_procesados[i].location \in {"Peru", "Ecuador"}

\* A run whose loaded rows hold a third country and a repeated surviving key.
C1_Witness ==
    /\ Mat("datos_procesados")
    /\ df_procesados # <<>>
    /\ \E i \in 1..Len(df_leer.rows) : df_leer.rows[i].location = "Chile"
    /\ \E i, j \in 1..Len(Sobrevivientes) :
          i < j /\ Clave(Sobrevivientes[i]) = Clave(Sobrevivientes[j])

\* Index of the last row of f with key k.
UltimaPos(f, k) ==
    CHOOSE i \in 1..Len(f) :
        Clave(f[i]) = k /\ \A j \in (i + 1)..Len(f) : Clave(f[j]) # k

\* C7: of the rows surviving the filters, datos_procesados keeps for every
\* key exactly one row, the last occurrence in upstream order, and the kept
\* rows stay in their upstream relative order.
C7_MantieneUltimo ==
    Mat("datos_procesados") =>
        LET f == Sobrevivientes
            out == df_procesados
        IN  /\ \A i \in 1..Len(f) :
                  Cardinality({j \in 1..Len(out) : Clave(out[j]) = Clave(f[i])}) = 1
            /\ \A j \in 1..Len(out) :
                  /\ \E i \in 1..Len(f) : Clave(f[i]) = Clave(out[j])
                  /\ out[j] = f[UltimaPos(f, Clave(out[j]))]
            /\ \A j1, j2 \in 1..Len(out) :
                  j1 < j2 => UltimaPos(f, Clave(out[j1])) < UltimaPos(f, Clave(out[j2]))

\* A repeated key whose occurrences differ, followed by a row with another key.
C7_Witness ==
    /\ Mat("datos_procesados")
    /\ LET f == Sobrevivientes
       IN  /\ Len(f) = 3
           /\ Clave(f[1]) = Clave(f[2]) /\ f[1] # f[2]
           /\ Clave(f[3]) # Clave(f[1])
    /\ Len(df_procesados) = 2

\* Rows of group loc in the normalized set.
FilasDe(loc) == {i \in 1..Len(df_procesados) : df_procesados[i].location = loc}

\* C2: a jurisdiction with fewer than 7 normalized rows has no row in the
\* incidence output and no row in the growth output.
C2_GrupoCorto ==
    /\ Mat("metrica_incidencia_7d") =>
          \A loc \in {"Peru", "Ecuador"} :
              Cardinality(FilasDe(loc)) < 7 =>
                  \A i \in 1..Len(df_incidencia) : df_incidencia[i].location # loc
    /\ Mat("metrica_factor_crec_7d") =>
          \A loc \in {"Peru", "Ecuador"} :
              Cardinality(FilasDe(loc)) < 7 =>
                  \A i \in 1..Len(df_factor) : df_factor[i].location # loc

SalidaVacia == chk_salida.ran /\ df_incidencia = <<>>

\* C3 as stated: on an empty incidence set the check fails and its metadata
\* reports fuera_de_rango 0 and total_filas 0.
C3_Original ==
    SalidaVacia =>
        /\ chk_salida.passed = FALSE
        /\ {"fuera_de_rango", "total_filas"} \subseteq DOMAIN chk_salida.metadata
        /\ chk_salida.metadata["fuera_de_rango"] = "0"
        /\ chk_salida.metadata["total_filas"] = "0"

\* C3 amended: on an empty incidence set the check fails and its metadata
\* holds the single entry error = "DataFrame vacio".
C3_MetadataError ==
    SalidaVacia =>
        /\ chk_salida.passed = FALSE
        /\ DOMAIN chk_salida.metadata = {"error"}
        /\ chk_salida.metadata["error"] = "DataFrame vacio"

\* The check ran on an incidence set that is empty although rows were
\* normalized.
C3_Witness == SalidaVacia /\ df_procesados # <<>>

GateSalidaVacia == SalidaVacia /\ ~chk_salida.passed

\* C4 as stated: a run that trips the output check on an empty incidence set
\* never runs the body of reporte_excel_covid nor materializes it.
C4_Original ==
    GateSalidaVacia =>
        ~reporte.ran /\ estado["reporte_excel_covid"] # "Materialized"

\* C4 amended: the output check does not block.  In a run that trips it on
\* an empty incidence set, whenever the growth asset materialized the export
\* is never skipped: once it has left Pending its body has run and it is
\* Materialized or Failed by its own outcome.
C4_NoBloquea ==
    (GateSalidaVacia /\ Mat("metrica_factor_crec_7d")
       /\ estado["reporte_excel_covid"] # "Pending") =>
        /\ reporte.ran
        /\ estado["reporte_excel_covid"] \in {"Materialized", "Failed"}

\* The check tripped on the empty set and the export materialized.
C4_Witness ==
    GateSalidaVacia /\ reporte.ran /\ Mat("reporte_excel_covid")

Terminado ==
    /\ \A n \in {"leer_datos", "datos_procesados", "metrica_incidencia_7d",
                 "metrica_factor_crec_7d", "reporte_excel_covid"} :
          estado[n] # "Pending"
    /\ chk_entrada.ran

\* C5: the input check is advisory: in a finished run whose input check
\* failed, the loaded frame is the one leer_datos produced, and normalize,
\* incidence, growth and export all executed (none was skipped, the export's
\* body ran).
C5_Advisory ==
    (Terminado /\ ~chk_entrada.passed) =>
        /\ df_leer = leer_datos(csv)
        /\ \A n \in {"datos_procesados", "metrica_incidencia_7d",
                     "metrica_factor_crec_7d", "reporte_excel_covid"} :
              estado[n] # "Skipped"
        /\ reporte.ran

\* Position of row r in its jurisdiction's date-ascending order (rows without
\* a date come last); the normalized rows have distinct keys.
FechaAntes(q, r) ==
    /\ q.date # {}
    /\ r.date = {} \/ \E x \in q.date : \E y \in r.date : x < y

Posicion(P, r) ==
    1 + Cardinality({q \in Range(P) : q.location = r.location /\ FechaAntes(q, r)})

Posiciones(P) == [r \in Range(P) |-> Posicion(P, r)]

\* The row and the 6 rows before it in its group (pos = Posiciones(P)).
VentanaDe(P, pos, r) ==
    {q \in Range(P) : q.location = r.location /\ pos[q] \in (pos[r] - 6)..pos[r]}

\* new_cases / population * 100000 of a row with a usable population.
TasaDiaria(q) ==
    Frac(q.new_cases[1] * 100000 * q.population[2], q.new_cases[2] * q.population[1])

RECURSIVE SumaTasas(_)
SumaTasas(S) ==
    IF S = {} THEN <<0, 1>>
    ELSE LET q == CHOOSE x \in S : TRUE
             t == TasaDiaria(q)
             u == SumaTasas(S \ {q})
         IN  Frac(t[1] * u[2] + u[1] * t[2], t[2] * u[2])

MediaVentana(P, pos, r) ==
    LET u == SumaTasas(VentanaDe(P, pos, r)) IN Frac(u[1], u[2] * 7)

PoblacionUsable(q) == q.population[2] > 0 /\ q.population[1] # 0

FilaIncidencia(P, pos, r) ==
    [date |-> r.date, location |-> r.location,
     incidencia_7d |-> MediaVentana(P, pos, r)]

\* C6 as stated: the incidence output has exactly one row for every
\* normalized row at position 7 or later of its group, none for the first 6,
\* and each value is the mean of the daily rates of the row's window.
C6_Original ==
    Mat("metrica_incidencia_7d") =>
        \A pos \in {Posiciones(df_procesados)} :
        LET P == df_procesados
            E == {r \in Range(P) : pos[r] >= 7}
        IN  /\ {Clave(o) : o \in Range(df_incidencia)} = {Clave(r) : r \in E}
            /\ Len(df_incidencia) = Cardinality(E)
            /\ Range(df_incidencia) = {FilaIncidencia(P, pos, r) : r \in E}

\* C6 amended: the rows are those at position 7 or later that have a date and
\* whose window holds 7 rows with a population that is neither missing nor 0.
C6_VentanaCompleta ==
    Mat("metrica_incidencia_7d") =>
        \A pos \in {Posiciones(df_procesados)} :
        LET P == df_procesados
            E == {r \in Range(P) : /\ pos[r] >= 7
                                   /\ r.date # {}
                                   /\ \A q \in VentanaDe(P, pos, r) : PoblacionUsable(q)}
        IN  /\ Len(df_incidencia) = Cardinality(E)
            /\ Range(df_incidencia) = {FilaIncidencia(P, pos, r) : r \in E}

\* Ecuador has 8 rows of 100 cases and gets exactly 2 rows, both 10, while a
\* Peru row at position 7 or later has no output row.
C6_Witness ==
    /\ Mat("metrica_incidencia_7d")
    /\ Cardinality(FilasDe("Ecuador")) = 8
    /\ LET ec == {i \in 1..Len(df_incidencia) : df_incidencia[i].location = "Ecuador"}
       IN  /\ Cardinality(ec) = 2
           /\ \A i \in ec : df_incidencia[i].incidencia_7d = <<10, 1>>
    /\ \E r \in Range(df_procesados) :
          /\ r.location = "Peru"
          /\ Posicion(df_procesados, r) >= 7
          /\ \A i \in 1..Len(df_incidencia) : Clave(df_incidencia[i]) # Clave(r)
    /\ \E i \in 1..Len(df_incidencia) : df_incidencia[i].location = "Peru"

\* C8: every row of the growth output has 0 <= factor_crec_7d <= 10.
C8_FactorEnRango ==
    Mat("metrica_factor_crec_7d") =>
        \A i \in 1..Len(df_factor) :
            LET f == df_factor[i].factor_crec_7d
            IN  f[2] > 0 /\ f[1] >= 0 /\ f[1] <= 10 * f[2]

\* A run where a row was removed by the range filter and a row with a
\* nonzero weekly sum is kept with factor 0.
C8_Witness ==
    /\ Mat("metrica_factor_crec_7d")
    /\ \E r \in Range(df_procesados) :
          \A i \in 1..Len(df_factor) : Clave(df_factor[i]) # Clave(r)
    /\ \E i \in 1..Len(df_factor) :
          /\ df_factor[i].factor_crec_7d = <<0, 1>>
          /\ df_factor[i].casos_semana[2] > 0
          /\ df_factor[i].casos_semana[1] # 0

\* Columns rule k of chequeos_entrada reads.
Requiere(k) ==
    CASE k = 1 -> {"location"}
      [] k = 2 -> {"date"}
      [] k = 3 -> {"new_cases"}
      [] k = 4 -> {"population"}
      [] k = 5 -> {"location"}
      [] k = 6 -> {"date"}
      [] k = 7 -> {"location", "date"}
      [] k = 8 -> {"population"}
      [] k = 9 -> {"new_cases"}

\* C9: every rule of chequeos_entrada whose column is absent from the frame
\* is recorded as failed.
C9_ColumnaAusente ==
    chk_entrada.ran =>
        \A k \in 1..9 :
            ~(Requiere(k) \subseteq df_leer.cols) => chk_entrada.resumen[k].estado = "No"

HayPais(loc) == \E i \in 1..Len(df_leer.rows) : df_leer.rows[i].location = loc

ReglaPaises == chk_entrada.resumen[5]

\* C10 as stated: the jurisdiction rule passes only if there is a Peru row
\* and an Ecuador row; with only one of the two the rule and the check fail.
C10_Original ==
    chk_entrada.ran =>
        /\ ReglaPaises.estado = "Si" => (HayPais("Peru") /\ HayPais("Ecuador"))
        /\ ~(HayPais("Peru") /\ HayPais("Ecuador")) => ~chk_entrada.passed

\* C10 amended: the jurisdiction rule passes exactly when there is a row of
\* Peru or of Ecuador, and it fails the check when there is none.
C10_AlgunPais ==
    chk_entrada.ran =>
        /\ ReglaPaises.nombre_regla = "datos de Peru o Ecuador presentes"
        /\ ReglaPaises.estado = "Si" <=> (HayPais("Peru") \/ HayPais("Ecuador"))
        /\ ~(HayPais("Peru") \/ HayPais("Ecuador")) => ~chk_entrada.passed

\* Only Peru rows are loaded, the rule passes and so does the check.
C10_Witness ==
    /\ chk_entrada.ran
    /\ HayPais("Peru") /\ ~HayPais("Ecuador")
    /\ ReglaPaises.estado = "Si"
    /\ chk_entrada.passed
==========================================================================
